---- MODULE Spec2Model ----
(***************************************************************************)
(* Model of backend/main.py, the FastAPI relay of the ai-slider extension. *)
(*                                                                         *)
(* Strings are sequences of symbols.  A symbol is one character ("a",     *)
(* " ", "\n") or one fixed literal of the source written as a single       *)
(* symbol ("BEGIN_UNTRUSTED_PAGE_TEXT", "Page URL: ", ...).  Bytes read    *)
(* from a subprocess are sequences of the same symbols plus "0xFF", a      *)
(* byte that is not valid UTF-8.  One symbol, LONG_RUN, stands for a run   *)
(* of MAX_CONTEXT_CHARS + 1 letters, so that a text longer than the        *)
(* limits of the request models can be a subprocess's answer; pylen is     *)
(* Python's len, which counts that run in full.                            *)
(*                                                                         *)
(* The server is one asyncio event loop: a handler runs without            *)
(* interruption from one await to the next, so every action below is the   *)
(* code between two suspension points of one request.                      *)
(***************************************************************************)
EXTENDS Integers, Sequences, FiniteSets, TLC

(***************************************************************************)
(* Program constants (main.py:35-43, 61-70, 106, 133).                     *)
(***************************************************************************)
MAX_CONTEXT_CHARS == 50000
MAX_QUESTION_CHARS == 2000
SESSION_EXPIRY_SECONDS == 3600
MAX_URL_CHARS == 2000
MAX_TITLE_CHARS == 500
MAX_HISTORY_ITEMS == 50
SENTENCE_WINDOW == 500
WORD_WINDOW == 200
CODEX_CLI_COMMAND == "codex"
CLAUDE_CLI_COMMAND == "claude"
SYSTEM_PROMPT == <<"SYSTEM_PROMPT">>

(***************************************************************************)
(* Bounds of the model.                                                    *)
(***************************************************************************)
MaxProcs == 2       \* requests in flight at once
MaxSessions == 1    \* sessions ever created
MaxTemp == 2        \* temporary file names
MaxDrift == 1       \* the clock is observed up to expiry window + MaxDrift
MaxTurns == 2       \* a session ask starts only below this many stored turns
LongTurns == 52     \* the same, in the long-conversation specification

Procs == 1..MaxProcs
TempNames == 1..MaxTemp
Providers == {CODEX_CLI_COMMAND, CLAUDE_CLI_COMMAND}
Instants == {0} \cup {SESSION_EXPIRY_SECONDS + d : d \in (-1)..MaxDrift}

NoSession == 0
NoFile == 0

(***************************************************************************)
(* String helpers.                                                         *)
(***************************************************************************)
SetMin(S) == CHOOSE x \in S : \A y \in S : x <= y
SetMax(S) == CHOOSE x \in S : \A y \in S : x >= y

IsSpace(c) == c \in {" ", "\n", "\t"}

LONG_RUN == "a * (MAX_CONTEXT_CHARS + 1)"

Width(c) == IF c = LONG_RUN THEN MAX_CONTEXT_CHARS + 1 ELSE 1

\* len(s): one for every symbol, and the rest of its width for every run
pylen(s) ==
  Len(s) + Cardinality({i \in 1..Len(s) : s[i] = LONG_RUN}) * (Width(LONG_RUN) - 1)

\* str.strip(): drop leading and trailing whitespace
strip(s) ==
  LET keep == {i \in 1..Len(s) : ~IsSpace(s[i])}
  IN IF keep = {} THEN << >> ELSE SubSeq(s, SetMin(keep), SetMax(keep))

\* str.rstrip(): drop trailing whitespace
rstrip(s) ==
  LET keep == {i \in 1..Len(s) : ~IsSpace(s[i])}
  IN IF keep = {} THEN << >> ELSE SubSeq(s, 1, SetMax(keep))

\* s[:k] of Python, k possibly negative
SliceTo(s, k) ==
  IF k >= 0 THEN SubSeq(s, 1, IF k < Len(s) THEN k ELSE Len(s))
  ELSE SubSeq(s, 1, IF Len(s) + k > 0 THEN Len(s) + k ELSE 0)

\* s[a:b] of Python for 0 <= a, 0 <= b
Slice(s, a, b) == SubSeq(s, a + 1, IF b < Len(s) THEN b ELSE Len(s))

\* str.rfind of a one- or two-symbol pattern: 0-based index of the last
\* occurrence, -1 when there is none
rfind(s, pat) ==
  LET hits == {i \in 0..(Len(s) - Len(pat)) :
                 \A j \in 1..Len(pat) : s[i + j] = pat[j]}
  IN IF hits = {} THEN -1 ELSE SetMax(hits)

\* bytes.decode(): defined on valid UTF-8 only
Decodable(b) == \A i \in 1..Len(b) : b[i] # "0xFF"

\* "\n".join(parts) and "\n\n".join(parts)
RECURSIVE join(_, _)
join(sep, parts) ==
  IF parts = << >> THEN << >>
  ELSE IF Len(parts) = 1 THEN parts[1]
  ELSE parts[1] \o sep \o join(sep, Tail(parts))

NonEmpty(s) == s # << >>

(***************************************************************************)
(* smart_truncate (main.py:93-137).                                        *)
(***************************************************************************)
Ellipsis == <<".", ".", ".">>

\* 0-based starts of the matches of [.!?][\s\n] in region
SentenceMatches(region) ==
  {i \in 0..(Len(region) - 2) :
     region[i + 1] \in {".", "!", "?"} /\ IsSpace(region[i + 2])}

smart_truncate(text, max_chars) ==
  IF pylen(text) <= max_chars THEN text
  ELSE
    LET search_start == IF max_chars - SENTENCE_WINDOW > 0
                        THEN max_chars - SENTENCE_WINDOW ELSE 0
        search_region == Slice(text, search_start, max_chars)
        matches == SentenceMatches(search_region)
        para_idx == rfind(search_region, <<"\n", "\n">>)
        newline_idx == rfind(search_region, <<"\n">>)
        space_idx == rfind(SliceTo(text, max_chars), <<" ">>)
    IN IF matches # {}
       THEN rstrip(SliceTo(text, search_start + SetMax(matches) + 2))
       ELSE IF para_idx # -1
       THEN rstrip(SliceTo(text, search_start + para_idx))
       ELSE IF newline_idx # -1
       THEN rstrip(SliceTo(text, search_start + newline_idx))
       ELSE IF space_idx > max_chars - WORD_WINDOW
       THEN rstrip(SliceTo(text, space_idx)) \o Ellipsis
       ELSE rstrip(SliceTo(text, max_chars)) \o Ellipsis

(***************************************************************************)
(* Prompt assembly (main.py:178-218).                                      *)
(***************************************************************************)
\* mutant of build_user_message: the context is closed at its first end marker
build_user_message_Cut(question, context, url, title) ==
  LET parts == << IF url # << >> THEN <<"Page URL: ">> \o url ELSE << >>,
                  IF title # << >> THEN <<"Page Title: ">> \o title ELSE << >> >>
      header == join(<<"\n">>, SelectSeq(parts, NonEmpty))
      ends == {i \in 1..Len(context) : context[i] = "END_UNTRUSTED_PAGE_TEXT"}
      kept == IF ends = {} THEN context ELSE SubSeq(context, 1, SetMin(ends) - 1)
  IN header
       \o <<"\n", "\n", "BEGIN_UNTRUSTED_PAGE_TEXT", "\n">>
       \o kept
       \o <<"\n", "END_UNTRUSTED_PAGE_TEXT", "\n", "\n", "User Question: ">>
       \o question

build_user_message(question, context, url, title) ==
  LET parts == << IF url # << >> THEN <<"Page URL: ">> \o url ELSE << >>,
                  IF title # << >> THEN <<"Page Title: ">> \o title ELSE << >> >>
      header == join(<<"\n">>, SelectSeq(parts, NonEmpty))
  IN header
       \o <<"\n", "\n", "BEGIN_UNTRUSTED_PAGE_TEXT", "\n">>
       \o context
       \o <<"\n", "END_UNTRUSTED_PAGE_TEXT", "\n", "\n", "User Question: ">>
       \o question

\* one line of the history section
HistoryLine(msg) ==
  (IF msg.role = "user" THEN <<"User", ":", " ">> ELSE <<"Assistant", ":", " ">>)
    \o msg.content

build_cli_prompt(system_prompt, user_message, history) ==
  LET first == << <<"SYSTEM PROMPT:", "\n">> \o system_prompt >>
      hist == IF history # << >>
              THEN << <<"CONVERSATION HISTORY:", "\n">>
                        \o join(<<"\n">>, [i \in 1..Len(history) |-> HistoryLine(history[i])]) >>
              ELSE << >>
      last == << <<"CURRENT USER MESSAGE:", "\n">> \o user_message >>
  IN join(<<"\n", "\n">>, first \o hist \o last)

\* HistoryMessage(role, content) validates on construction (main.py:59-61)
HistoryMessageValid(role, content) ==
  /\ role \in {"user", "assistant"}
  /\ pylen(content) <= MAX_CONTEXT_CHARS

HistoryMessage(role, content) == [role |-> role, content |-> content]

(***************************************************************************)
(* State.                                                                  *)
(*   now      the wall clock read by time.time()                           *)
(*   sessions the keys of the module-level dict `sessions`                 *)
(*   heap     the session dicts ever created, by id; sessions[k] is       *)
(*            heap[k].  A dict deleted from `sessions` lives on while a    *)
(*            suspended session_ask holds it in its local `session`.       *)
(*   files    the temporary files that exist, with their content           *)
(*   pc       where each request handler stands                            *)
(*   req      the request each handler is serving                          *)
(*   loc      the handler's locals, with the number of adapters it has     *)
(*            entered and, of the command its adapter looked up, what the  *)
(*            search path held at that moment                              *)
(*   child    the subprocess the handler spawned                           *)
(*   resp     the response the handler produced                            *)
(* Two more variables belong to the verification, not to the server:       *)
(*   served   per session id, the turns of the session asks answered 200   *)
(*            so far, in the order they were answered                      *)
(*   call     one call of a pure function: its arguments and its result    *)
(***************************************************************************)
VARIABLES now, sessions, heap, files, pc, req, loc, child, resp, served, call

vars == <<now, sessions, heap, files, pc, req, loc, child, resp, served, call>>

\* the value of a request field the body does not carry
Absent == "absent"

NoReq == [endpoint |-> "none", question |-> << >>, context |-> << >>,
          url |-> << >>, title |-> << >>, history |-> << >>,
          provider_field |-> Absent, provider |-> CODEX_CLI_COMMAND,
          session_id |-> NoSession]
NoLoc == [session |-> NoSession, prompt |-> << >>, temp_path |-> NoFile,
          adapter_calls |-> 0, adapter |-> "none", onpath |-> {}]
NoChild == [state |-> "none", returncode |-> 0, stdout |-> << >>, stderr |-> << >>]
NoResp == [status |-> 0, body |-> << >>]
NoCall == [fn |-> "none", state |-> "none", text |-> << >>, max_chars |-> 0,
           question |-> << >>, context |-> << >>, url |-> << >>, title |-> << >>,
           result |-> << >>]

\* the server right after start-up
Started ==
  /\ now = 0
  /\ sessions = {}
  /\ heap = << >>
  /\ files = << >>
  /\ pc = [p \in Procs |-> "idle"]
  /\ req = [p \in Procs |-> NoReq]
  /\ loc = [p \in Procs |-> NoLoc]
  /\ child = [p \in Procs |-> NoChild]
  /\ resp = [p \in Procs |-> NoResp]
  /\ served = << >>

Init == Started /\ call = NoCall

(***************************************************************************)
(* Request validation done by the framework from the pydantic models       *)
(* (main.py:59-90): a body outside the limits is answered 422 before the   *)
(* handler runs.                                                           *)
(***************************************************************************)
\* mutant of provider_default: the default is the other provider
provider_default_Claude(field) == IF field = Absent THEN "claude" ELSE field

\* provider: str = Field(default="codex", ...) (main.py:70, 90)
provider_default(field) == IF field = Absent THEN "codex" ELSE field

HistoryItemsValid(history) ==
  /\ Len(history) <= MAX_HISTORY_ITEMS
  /\ \A i \in 1..Len(history) : HistoryMessageValid(history[i].role, history[i].content)

AskRequestValid(r) ==
  /\ pylen(r.question) <= MAX_QUESTION_CHARS
  /\ pylen(r.context) <= MAX_CONTEXT_CHARS
  /\ pylen(r.url) <= MAX_URL_CHARS
  /\ pylen(r.title) <= MAX_TITLE_CHARS
  /\ HistoryItemsValid(r.history)
  /\ r.provider \in Providers

SessionCreateRequestValid(r) ==
  /\ pylen(r.context) <= MAX_CONTEXT_CHARS
  /\ pylen(r.url) <= MAX_URL_CHARS
  /\ pylen(r.title) <= MAX_TITLE_CHARS

SessionAskRequestValid(r) ==
  /\ pylen(r.question) <= MAX_QUESTION_CHARS
  /\ r.provider \in Providers

(***************************************************************************)
(* Session store (main.py:140-148).                                        *)
(***************************************************************************)
\* mutant of Expired: the age taken with its operands swapped
Expired_Swapped(data, t) == data.created_at - t > SESSION_EXPIRY_SECONDS

Expired(data, t) == t - data.created_at > SESSION_EXPIRY_SECONDS

\* mutant of cleanup_expired_sessions: nothing is swept
cleanup_expired_sessions_Skip(keys, objs, t) == keys

\* the keys left in `sessions` by cleanup_expired_sessions() at time t
cleanup_expired_sessions(keys, objs, t) ==
  keys \ {sid \in keys : Expired(objs[sid], t)}

(***************************************************************************)
(* Availability probes (main.py:192-199).                                  *)
(***************************************************************************)
None == "None"

\* shutil.which(cmd) when the search path holds the commands in onpath
which(cmd, onpath) == IF cmd \in onpath THEN cmd ELSE None

is_claude_cli_available(onpath) == which(CLAUDE_CLI_COMMAND, onpath) # None

\* mutant of is_codex_cli_available: the probe answers yes unasked
is_codex_cli_available_Always(onpath) == TRUE

is_codex_cli_available(onpath) == which(CODEX_CLI_COMMAND, onpath) # None

(***************************************************************************)
(* Temporary files.  NamedTemporaryFile picks a random name that no        *)
(* existing file has; like a uuid4 it is taken to collide with no name a   *)
(* call in flight still holds.  Names being interchangeable, the model     *)
(* takes the least of the fresh ones.                                      *)
(***************************************************************************)
HeldNames == {loc[q].temp_path : q \in {x \in Procs : pc[x] \in {"spawn", "communicate"}}}

FreshNames == TempNames \ (DOMAIN files \cup HeldNames)

\* Path.unlink(missing_ok=True)
unlink(fs, t) == [n \in DOMAIN fs \ {t} |-> fs[n]]

\* NamedTemporaryFile(delete=False): an empty file under name t
create_file(fs, t) == [n \in DOMAIN fs \cup {t} |-> IF n = t THEN << >> ELSE fs[n]]

(***************************************************************************)
(* What a handler checks before it builds a prompt.                        *)
(***************************************************************************)
\* mutant of AskReject: the context is not looked at
AskReject_QuestionOnly(question, context) ==
  IF strip(question) = << >> THEN <<400, "Question cannot be empty">>
  ELSE <<0, "">>

\* ask (main.py:327-331): 0 when the request passes
AskReject(question, context) ==
  IF strip(question) = << >> THEN <<400, "Question cannot be empty">>
  ELSE IF strip(context) = << >> THEN <<400, "Context cannot be empty">>
  ELSE <<0, "">>

\* create_session (main.py:357-358)
CreateReject(context) ==
  IF strip(context) = << >> THEN <<400, "Context cannot be empty">>
  ELSE <<0, "">>

\* mutant of SessionAskReject: the question is validated before the lookup
SessionAskReject_QuestionFirst(session_id, question, keys) ==
  IF strip(question) = << >> THEN <<400, "Question cannot be empty">>
  ELSE IF session_id \notin keys THEN <<404, "Session not found or expired">>
  ELSE <<0, "">>

\* session_ask (main.py:379-383), keys being `sessions` after the sweep
SessionAskReject(session_id, question, keys) ==
  IF session_id \notin keys THEN <<404, "Session not found or expired">>
  ELSE IF strip(question) = << >> THEN <<400, "Question cannot be empty">>
  ELSE <<0, "">>

(***************************************************************************)
(* What the adapters make of a finished subprocess.  A result is           *)
(*   kind "answer": the returned text                                      *)
(*   kind "http":   an HTTPException(status, detail)                       *)
(*   kind "exc":    any other exception (bytes.decode or read_text on      *)
(*                  invalid UTF-8), answered 500 by the framework          *)
(***************************************************************************)
Answer(text) == [kind |-> "answer", status |-> 200, body |-> text]
HttpError(status, detail) == [kind |-> "http", status |-> status, body |-> detail]
Unhandled == [kind |-> "exc", status |-> 500, body |-> <<"Internal Server Error">>]

NoResponse == <<"No response generated.">>

\* the non-zero-exit branch of both adapters (main.py:232-237, 267-272)
CliError(label, stdout, stderr) ==
  IF ~Decodable(stderr) THEN Unhandled
  ELSE IF strip(stderr) # << >>
  THEN HttpError(500, <<label, " CLI error: ">> \o strip(stderr))
  ELSE IF ~Decodable(stdout) THEN Unhandled
  ELSE HttpError(500, <<label, " CLI error: ">>
                        \o (IF strip(stdout) # << >> THEN strip(stdout)
                            ELSE <<"unknown error">>))

\* call_prompt_cli after communicate() (main.py:232-240)
call_prompt_cli(label, returncode, stdout, stderr) ==
  IF returncode # 0 THEN CliError(label, stdout, stderr)
  ELSE IF ~Decodable(stdout) THEN Unhandled
  ELSE Answer(IF strip(stdout) # << >> THEN strip(stdout) ELSE NoResponse)

\* call_codex_cli after communicate(), up to the finally (main.py:267-282)
call_codex_cli(returncode, stdout, stderr, fs, temp_path) ==
  IF returncode # 0 THEN CliError("Codex", stdout, stderr)
  ELSE IF temp_path \in DOMAIN fs /\ ~Decodable(fs[temp_path]) THEN Unhandled
  ELSE LET output == IF temp_path \in DOMAIN fs THEN strip(fs[temp_path]) ELSE << >>
       IN IF output # << >> THEN Answer(output)
          ELSE IF ~Decodable(stdout) THEN Unhandled
          ELSE Answer(IF strip(stdout) # << >> THEN strip(stdout) ELSE NoResponse)

\* mutant of release_temp: the file is left behind
release_temp_Never(fs, temp_path) == fs

\* the finally of call_codex_cli (main.py:283-284); the claude adapter has no file
release_temp(fs, temp_path) ==
  IF temp_path = NoFile THEN fs ELSE unlink(fs, temp_path)

(***************************************************************************)
(* Inputs.  An input domain names the request bodies and the subprocess    *)
(* behaviours a specification draws from.                                  *)
(***************************************************************************)
BigText == <<LONG_RUN>>

Outcome(rc, out, err, op, data) ==
  [returncode |-> rc, stdout |-> out, stderr |-> err, fileop |-> op, filedata |-> data]

FullInputs ==
  [ Questions |-> {<<" ">>, <<" ", "q">>},
    Contexts |-> {<<" ">>, <<"c", ".">>},
    Urls |-> {<<"u">>},
    Titles |-> {<< >>},
    Histories |-> {<< >>},
    Providers |-> Providers,
    SessionIds |-> 1..MaxSessions,
    Turns |-> MaxTurns,
    CodexOutcomes |->
      { Outcome(0, << >>, << >>, "write", <<"a", "\n">>),
        Outcome(0, <<" ", "b">>, << >>, "none", << >>),
        Outcome(1, << >>, <<"e">>, "write", <<"a">>),
        Outcome(0, <<"0xFF">>, << >>, "remove", << >>),
        Outcome(0, << >>, << >>, "write", BigText) },
    ClaudeOutcomes |->
      { Outcome(0, <<"a", "\n">>, << >>, "none", << >>),
        Outcome(0, <<" ">>, << >>, "none", << >>),
        Outcome(1, <<"b">>, << >>, "none", << >>),
        Outcome(0, BigText, << >>, "none", << >>) } ]

(***************************************************************************)
(* Steps of a handler.                                                     *)
(***************************************************************************)
Done(p, status, body) ==
  /\ pc' = [pc EXCEPT ![p] = "done"]
  /\ resp' = [resp EXCEPT ![p] = [status |-> status, body |-> body]]

\* the handler's choice of adapter (main.py:344-347, 396-399)
adapter_of(provider) == IF provider = "claude" THEN "claude" ELSE "codex"

\* handle_claude_request / handle_codex_request up to their first await
\* (main.py:287-320, 243-264); onpath is what the search path holds when
\* shutil.which looks
Invoke(p, provider, sref, user_message, history) ==
  \E onpath \in SUBSET Providers :
    LET prompt == build_cli_prompt(SYSTEM_PROMPT, user_message, history)
        entered == [NoLoc EXCEPT !.session = sref, !.adapter_calls = 1,
                                 !.adapter = adapter_of(provider),
                                 !.onpath = onpath \cap {provider}]
    IN IF adapter_of(provider) = "claude"
       THEN IF ~is_claude_cli_available(onpath)
            THEN /\ Done(p, 500, <<"Claude CLI not found. Install Claude Code and ensure 'claude' is on PATH.">>)
                 /\ loc' = [loc EXCEPT ![p] = entered]
                 /\ files' = files
            ELSE /\ pc' = [pc EXCEPT ![p] = "spawn"]
                 /\ resp' = resp
                 /\ loc' = [loc EXCEPT ![p] = [entered EXCEPT !.prompt = prompt]]
                 /\ files' = files
       ELSE IF ~is_codex_cli_available(onpath)
            THEN /\ Done(p, 500, <<"Codex CLI not found. Install Codex and ensure 'codex' is on PATH.">>)
                 /\ loc' = [loc EXCEPT ![p] = entered]
                 /\ files' = files
            ELSE \E t \in {n \in FreshNames : \A m \in FreshNames : n <= m} :
                   /\ pc' = [pc EXCEPT ![p] = "spawn"]
                   /\ resp' = resp
                   /\ loc' = [loc EXCEPT ![p] = [entered EXCEPT !.prompt = prompt,
                                                                !.temp_path = t]]
                   /\ files' = create_file(files, t)

\* a new request is served by the first free handler
Free(p) == pc[p] = "idle" /\ \A q \in Procs : q < p => pc[q] # "idle"

\* POST /ask (main.py:323-347), up to the adapter's first await
Ask(p, D) ==
  /\ Free(p)
  /\ \E question \in D.Questions, context \in D.Contexts, url \in D.Urls,
        title \in D.Titles, history \in D.Histories, field \in D.Providers :
       LET provider == provider_default(field)
           r == [NoReq EXCEPT !.endpoint = "ask", !.question = question,
                              !.context = context, !.url = url, !.title = title,
                              !.history = history, !.provider_field = field,
                              !.provider = provider]
           rej == AskReject(question, context)
           user_message == build_user_message(strip(question),
                             smart_truncate(context, MAX_CONTEXT_CHARS), url, title)
       IN /\ req' = [req EXCEPT ![p] = r]
          /\ IF ~AskRequestValid(r)
             THEN Done(p, 422, <<"Unprocessable Entity">>) /\ UNCHANGED <<loc, files>>
             ELSE IF rej[1] # 0
             THEN Done(p, rej[1], <<rej[2]>>) /\ UNCHANGED <<loc, files>>
             ELSE Invoke(p, provider, NoSession, user_message, history)
  /\ UNCHANGED <<now, sessions, heap, child, served, call>>

\* POST /session/create (main.py:352-371)
CreateSession(p, D) ==
  /\ Free(p)
  /\ \E context \in D.Contexts, url \in D.Urls, title \in D.Titles :
       LET r == [NoReq EXCEPT !.endpoint = "session_create", !.context = context,
                              !.url = url, !.title = title]
           swept == cleanup_expired_sessions(sessions, heap, now)
           rej == CreateReject(context)
           session_id == Cardinality(DOMAIN heap) + 1
           data == [context |-> smart_truncate(context, MAX_CONTEXT_CHARS),
                    url |-> url, title |-> title, history |-> << >>,
                    created_at |-> now]
       IN /\ req' = [req EXCEPT ![p] = r]
          /\ IF ~SessionCreateRequestValid(r)
             THEN Done(p, 422, <<"Unprocessable Entity">>)
                    /\ UNCHANGED <<sessions, heap, served>>
             ELSE IF rej[1] # 0
             THEN /\ Done(p, rej[1], <<rej[2]>>)
                  /\ sessions' = swept
                  /\ UNCHANGED <<heap, served>>
             ELSE /\ session_id \in D.SessionIds
                  /\ Done(p, 200, <<session_id>>)
                  /\ sessions' = swept \cup {session_id}
                  /\ heap' = [k \in DOMAIN heap \cup {session_id} |->
                                IF k = session_id THEN data ELSE heap[k]]
                  /\ served' = [k \in DOMAIN served \cup {session_id} |->
                                  IF k = session_id THEN << >> ELSE served[k]]
  /\ UNCHANGED <<now, files, loc, child, call>>

\* POST /session/ask (main.py:374-399), up to the adapter's first await
SessionAsk(p, D) ==
  /\ Free(p)
  /\ \E session_id \in D.SessionIds, question \in D.Questions, field \in D.Providers :
       LET provider == provider_default(field)
           r == [NoReq EXCEPT !.endpoint = "session_ask", !.question = question,
                              !.provider_field = field, !.provider = provider,
                              !.session_id = session_id]
           swept == cleanup_expired_sessions(sessions, heap, now)
           rej == SessionAskReject(session_id, question, swept)
           session == heap[session_id]
           user_message == build_user_message(strip(question), session.context,
                                              session.url, session.title)
       IN /\ req' = [req EXCEPT ![p] = r]
          /\ IF ~SessionAskRequestValid(r)
             THEN Done(p, 422, <<"Unprocessable Entity">>) /\ UNCHANGED <<sessions, loc, files>>
             ELSE IF rej[1] # 0
             THEN /\ Done(p, rej[1], <<rej[2]>>)
                  /\ sessions' = swept
                  /\ UNCHANGED <<loc, files>>
             ELSE /\ Len(session.history) < D.Turns
                  /\ sessions' = swept
                  /\ Invoke(p, provider, session_id, user_message, session.history)
  /\ UNCHANGED <<now, heap, child, served, call>>

\* mutant of append: an ask refreshes the session's timestamp
append_Touch(session, turns) ==
  [session EXCEPT !.history = @ \o turns, !.created_at = @ + 1]

\* session["history"].append(...) (main.py:402-403)
append(session, turns) == [session EXCEPT !.history = @ \o turns]

\* the adapter's frame is gone: its prompt, its Process and its temp_path
Returned(l) == [l EXCEPT !.prompt = << >>, !.temp_path = NoFile]

\* asyncio.create_subprocess_exec returns (main.py:223-229, 254-264)
SpawnOk(p) ==
  /\ pc[p] = "spawn"
  /\ pc' = [pc EXCEPT ![p] = "communicate"]
  /\ child' = [child EXCEPT ![p] = [NoChild EXCEPT !.state = "running"]]
  /\ UNCHANGED <<now, sessions, heap, files, req, loc, resp, served, call>>

\* asyncio.create_subprocess_exec raises (the executable is gone or cannot
\* be run): the finally of call_codex_cli runs, the exception is answered 500
SpawnRaises(p) ==
  /\ pc[p] = "spawn"
  /\ Done(p, Unhandled.status, Unhandled.body)
  /\ files' = release_temp(files, loc[p].temp_path)
  /\ loc' = [loc EXCEPT ![p] = Returned(loc[p])]
  /\ UNCHANGED <<now, sessions, heap, req, child, served, call>>

\* the subprocess exits; codex may have written its last message to the file
\* it was given, or removed it
ChildExit(p, D) ==
  /\ pc[p] = "communicate"
  /\ child[p].state = "running"
  /\ \E o \in (IF req[p].provider = CLAUDE_CLI_COMMAND
               THEN D.ClaudeOutcomes ELSE D.CodexOutcomes) :
       LET t == loc[p].temp_path
       IN /\ child' = [child EXCEPT ![p] =
                         [state |-> "exited", returncode |-> o.returncode,
                          stdout |-> o.stdout, stderr |-> o.stderr]]
          /\ files' = IF t = NoFile \/ o.fileop = "none" THEN files
                      ELSE IF o.fileop = "write" /\ t \in DOMAIN files
                      THEN [files EXCEPT ![t] = o.filedata]
                      ELSE [n \in DOMAIN files \ {t} |-> files[n]]
  /\ UNCHANGED <<now, sessions, heap, pc, req, loc, resp, served, call>>

\* what the adapter of handler p returns or raises once its subprocess has exited
AdapterResult(p) ==
  IF req[p].provider = CLAUDE_CLI_COMMAND
  THEN call_prompt_cli("Claude", child[p].returncode, child[p].stdout, child[p].stderr)
  ELSE call_codex_cli(child[p].returncode, child[p].stdout, child[p].stderr,
                      files, loc[p].temp_path)

\* process.communicate() returns: the rest of the adapter, then the rest of
\* the handler (main.py:230-240, 265-284, 349, 401-405)
CommunicateReturns(p) ==
  /\ pc[p] = "communicate"
  /\ child[p].state = "exited"
  /\ LET r == req[p]
         l == loc[p]
         res == AdapterResult(p)
         q == strip(r.question)
     IN /\ files' = release_temp(files, l.temp_path)
        /\ IF res.kind # "answer" \/ r.endpoint = "ask"
           THEN Done(p, res.status, res.body) /\ UNCHANGED <<heap, served>>
           ELSE IF ~HistoryMessageValid("user", q)
           THEN Done(p, Unhandled.status, Unhandled.body) /\ UNCHANGED <<heap, served>>
           ELSE IF ~HistoryMessageValid("assistant", res.body)
           THEN /\ Done(p, Unhandled.status, Unhandled.body)
                /\ heap' = [heap EXCEPT ![l.session] =
                              append(@, <<HistoryMessage("user", q)>>)]
                /\ served' = served
           ELSE /\ Done(p, 200, res.body)
                /\ heap' = [heap EXCEPT ![l.session] =
                              append(@, <<HistoryMessage("user", q),
                                          HistoryMessage("assistant", res.body)>>)]
                /\ served' = [served EXCEPT ![l.session] =
                                @ \o <<HistoryMessage("user", q),
                                       HistoryMessage("assistant", res.body)>>]
  /\ loc' = [loc EXCEPT ![p] = Returned(loc[p])]
  /\ child' = [child EXCEPT ![p] = NoChild]
  /\ UNCHANGED <<now, sessions, req, call>>

\* the response is sent and the handler is gone
Respond(p) ==
  /\ pc[p] = "done"
  /\ pc' = [pc EXCEPT ![p] = "idle"]
  /\ req' = [req EXCEPT ![p] = NoReq]
  /\ loc' = [loc EXCEPT ![p] = NoLoc]
  /\ child' = [child EXCEPT ![p] = NoChild]
  /\ resp' = [resp EXCEPT ![p] = NoResp]
  /\ UNCHANGED <<now, sessions, heap, files, served, call>>

(***************************************************************************)
(* The environment: time passes.                                           *)
(***************************************************************************)
Tick ==
  /\ \E t \in Instants : t > now /\ now' = t
  /\ UNCHANGED <<sessions, heap, files, pc, req, loc, child, resp, served, call>>

Next ==
  \/ \E p \in Procs : Ask(p, FullInputs)
  \/ \E p \in Procs : CreateSession(p, FullInputs)
  \/ \E p \in Procs : SessionAsk(p, FullInputs)
  \/ \E p \in Procs : SpawnOk(p)
  \/ \E p \in Procs : SpawnRaises(p)
  \/ \E p \in Procs : ChildExit(p, FullInputs)
  \/ \E p \in Procs : CommunicateReturns(p)
  \/ \E p \in Procs : Respond(p)
  \/ Tick

Spec == Init /\ [][Next]_vars

(***************************************************************************)
(* Long conversations: one request at a time, one question, one           *)
(* well-behaved codex, and room for more turns than the request model's    *)
(* cap on a history.                                                       *)
(***************************************************************************)
LongInputs ==
  [ Questions |-> {<<"q">>},
    Contexts |-> {<<"c">>},
    Urls |-> {<< >>},
    Titles |-> {<< >>},
    Histories |-> {<< >>},
    Providers |-> {CODEX_CLI_COMMAND},
    SessionIds |-> 1..MaxSessions,
    Turns |-> LongTurns,
    CodexOutcomes |-> {Outcome(0, << >>, << >>, "write", <<"a">>)},
    ClaudeOutcomes |-> {} ]

\* the client sends one request at a time
OneAtATime == {1}

LongNext ==
  \/ \E p \in OneAtATime : Ask(p, LongInputs)
  \/ \E p \in OneAtATime : CreateSession(p, LongInputs)
  \/ \E p \in OneAtATime : SessionAsk(p, LongInputs)
  \/ \E p \in OneAtATime : SpawnOk(p)
  \/ \E p \in OneAtATime : SpawnRaises(p)
  \/ \E p \in OneAtATime : ChildExit(p, LongInputs)
  \/ \E p \in OneAtATime : CommunicateReturns(p)
  \/ \E p \in OneAtATime : Respond(p)
  \/ Tick

LongSpec == Init /\ [][LongNext]_vars

(***************************************************************************)
(* Scheduling.  The event loop resumes a handler whose awaited future is   *)
(* done: the spawn call returns or raises, communicate() returns once the  *)
(* subprocess has exited, a finished response is sent.  Nothing makes a    *)
(* client send a request, and nothing makes a subprocess exit: the         *)
(* adapters pass no timeout to communicate() and never kill the child.     *)
(***************************************************************************)
HandlerStep(p) == SpawnOk(p) \/ SpawnRaises(p) \/ CommunicateReturns(p) \/ Respond(p)

FairSpec == LongSpec /\ \A p \in OneAtATime : WF_vars(HandlerStep(p))

(***************************************************************************)
(* Requests one after another, with every provider field a body can carry  *)
(* and subprocesses that fail, say nothing, or write bytes that are not    *)
(* text.                                                                   *)
(***************************************************************************)
SeqTurns == 4       \* a session ask starts only below this many stored turns

SeqInputs ==
  [ Questions |-> {<<" ">>, <<"q", " ">>},
    Contexts |-> {<<"c">>},
    Urls |-> {<<"u">>},
    Titles |-> {<< >>},
    Histories |-> {<< >>},
    Providers |-> Providers \cup {Absent},
    SessionIds |-> 1..MaxSessions,
    Turns |-> SeqTurns,
    CodexOutcomes |->
      { Outcome(0, <<"b">>, << >>, "write", <<" ", "a", "\n">>),
        Outcome(0, <<"b", " ">>, << >>, "write", <<" ">>),
        Outcome(0, <<"b">>, << >>, "remove", << >>),
        Outcome(0, <<"\n">>, <<"e">>, "none", << >>),
        Outcome(0, << >>, << >>, "write", <<"0xFF">>),
        Outcome(0, << >>, << >>, "write", BigText),
        Outcome(1, <<"b">>, <<" ", "e">>, "write", <<"a">>),
        Outcome(1, <<"b">>, <<" ">>, "write", <<"a">>),
        Outcome(2, << >>, << >>, "none", << >>),
        Outcome(1, << >>, <<"0xFF">>, "none", << >>) },
    ClaudeOutcomes |->
      { Outcome(0, <<"a", "\n">>, << >>, "none", << >>),
        Outcome(0, << >>, <<"e">>, "none", << >>),
        Outcome(1, <<"b">>, <<"e", "\n">>, "none", << >>),
        Outcome(1, <<" ", "b">>, << >>, "none", << >>),
        Outcome(2, <<"\n">>, <<" ">>, "none", << >>),
        Outcome(1, <<"0xFF">>, << >>, "none", << >>) } ]

SeqNext ==
  \/ \E p \in OneAtATime : Ask(p, SeqInputs)
  \/ \E p \in OneAtATime : CreateSession(p, SeqInputs)
  \/ \E p \in OneAtATime : SessionAsk(p, SeqInputs)
  \/ \E p \in OneAtATime : SpawnOk(p)
  \/ \E p \in OneAtATime : SpawnRaises(p)
  \/ \E p \in OneAtATime : ChildExit(p, SeqInputs)
  \/ \E p \in OneAtATime : CommunicateReturns(p)
  \/ \E p \in OneAtATime : Respond(p)
  \/ Tick

SeqSpec == Init /\ [][SeqNext]_vars

(***************************************************************************)
(* The pure functions, called on their own: smart_truncate on texts that   *)
(* end before, at and after the cap, with caps below and above its two     *)
(* windows, and build_user_message on contexts that may hold the           *)
(* sentinels.                                                              *)
(***************************************************************************)
MaxText == 3        \* symbols of a text besides its padding
MaxCap == 2         \* caps lie this far above 0 and above each window

\* the sequences over alphabet of length up to n
RECURSIVE Strings(_, _)
Strings(alphabet, n) ==
  IF n = 0 THEN {<< >>}
  ELSE LET shorter == Strings(alphabet, n - 1)
       IN shorter \cup {Append(s, c) : s \in {x \in shorter : Len(x) = n - 1},
                                       c \in alphabet}

Pad(n) == [i \in 1..n |-> "a"]

Texts ==
  {pre \o Pad(n) \o s : pre \in {<< >>, <<".", " ">>},
                        n \in {0, WORD_WINDOW - 1, SENTENCE_WINDOW - 1},
                        s \in Strings({"a", " ", ".", "\n"}, MaxText)}

Caps == {base + k : base \in {0, WORD_WINDOW, SENTENCE_WINDOW}, k \in 0..MaxCap}

PageTexts ==
  Strings({"c", "BEGIN_UNTRUSTED_PAGE_TEXT", "END_UNTRUSTED_PAGE_TEXT"}, MaxText)

PureCalls ==
  {[NoCall EXCEPT !.fn = "smart_truncate", !.state = "called",
                  !.text = t, !.max_chars = c] : t \in Texts, c \in Caps}
  \cup
  {[NoCall EXCEPT !.fn = "build_user_message", !.state = "called",
                  !.question = q, !.context = c, !.url = u, !.title = t] :
     q \in {<<"q">>}, c \in PageTexts,
     u \in {<< >>, <<"u">>}, t \in {<< >>, <<"t">>}}

PureInit == Started /\ call \in PureCalls

Truncate ==
  /\ call.fn = "smart_truncate" /\ call.state = "called"
  /\ call' = [call EXCEPT !.state = "returned",
                          !.result = smart_truncate(call.text, call.max_chars)]
  /\ UNCHANGED <<now, sessions, heap, files, pc, req, loc, child, resp, served>>

BuildMessage ==
  /\ call.fn = "build_user_message" /\ call.state = "called"
  /\ call' = [call EXCEPT !.state = "returned",
                          !.result = build_user_message(call.question, call.context,
                                                        call.url, call.title)]
  /\ UNCHANGED <<now, sessions, heap, files, pc, req, loc, child, resp, served>>

PureNext == Truncate \/ BuildMessage

PureSpec == PureInit /\ [][PureNext]_vars

(***************************************************************************)
(* Properties.                                                             *)
(***************************************************************************)
InFlight(p) == pc[p] \in {"spawn", "communicate"}

\* handler p takes up a request to the given endpoint in this step
Starts(p, endpoint) ==
  pc[p] = "idle" /\ pc'[p] # "idle" /\ req'[p].endpoint = endpoint

\* handler p produces its response in this step
Finishes(p) == pc[p] # "done" /\ pc'[p] = "done"

\* handler p entered no adapter and this step touched nothing but its response
NothingInvoked(p) ==
  /\ loc'[p] = NoLoc
  /\ child' = child
  /\ files' = files
  /\ heap' = heap

Turn(role, content) == [role |-> role, content |-> content]

\* C1: a session ask answered 200 has appended to its session's history
\* exactly the user turn with the trimmed question and then the assistant
\* turn with the returned answer; a session ask answered with an error has
\* left that history as it was.
C1_HistoryAppendAtomicity ==
  [][\A p \in Procs :
       (Finishes(p) /\ req'[p].endpoint = "session_ask"
          /\ req'[p].session_id \in DOMAIN heap) =>
         LET sid == req'[p].session_id
         IN IF resp'[p].status = 200
            THEN heap'[sid].history =
                   heap[sid].history
                     \o <<Turn("user", strip(req'[p].question)),
                          Turn("assistant", resp'[p].body)>>
            ELSE heap'[sid].history = heap[sid].history]_vars

\* C2: every session history, stored or held by a suspended ask, is at all
\* times an even-length alternation user, assistant, user, assistant, ...
C2_HistoryAlternates ==
  \A sid \in DOMAIN heap :
    LET h == heap[sid].history
    IN /\ Len(h) % 2 = 0
       /\ \A i \in 1..Len(h) :
            h[i].role = (IF i % 2 = 1 THEN "user" ELSE "assistant")

\* C3: no two session asks on the same session are at the same time between
\* their read of the history and their append.
C3_AsksSerialized ==
  \A p, q \in Procs :
    (p # q /\ InFlight(p) /\ InFlight(q) /\ loc[p].session # NoSession)
      => loc[p].session # loc[q].session

\* C4: a session ask on a session created less than the expiry window ago
\* is not answered 404, one on a session created more than the window ago
\* is answered 404, and the passing of time alone removes no session.
C4_SessionExpiry ==
  [][/\ \A p \in Procs :
          (Starts(p, "session_ask") /\ req'[p].session_id \in DOMAIN heap) =>
            LET age == now - heap[req'[p].session_id].created_at
            IN /\ age < SESSION_EXPIRY_SECONDS => resp'[p].status # 404
               /\ age > SESSION_EXPIRY_SECONDS =>
                    pc'[p] = "done" /\ resp'[p].status = 404
     /\ now' # now => sessions' = sessions]_vars

\* C4 witness: an ask on a session created window + 1 seconds ago was just
\* answered 404 while an ask that found the same session is still running.
C4_Witness ==
  \E p, q \in Procs :
    /\ pc[p] = "done" /\ req[p].endpoint = "session_ask"
    /\ resp[p].status = 404
    /\ req[p].session_id \in DOMAIN heap
    /\ now - heap[req[p].session_id].created_at = SESSION_EXPIRY_SECONDS + 1
    /\ InFlight(q) /\ loc[q].session = req[p].session_id

\* a session id the sweep at this moment leaves in the store
Live(sid) ==
  /\ sid \in sessions
  /\ now - heap[sid].created_at <= SESSION_EXPIRY_SECONDS

\* C5: a session ask on an unknown or expired session is answered 404, also
\* when its question is empty, and one on a live session with a question
\* that is empty after trimming is answered 400; neither enters an adapter,
\* spawns, creates a file or appends to a history.
C5_SessionAskRejects ==
  [][\A p \in Procs :
       Starts(p, "session_ask") =>
         /\ ~Live(req'[p].session_id) =>
              pc'[p] = "done" /\ resp'[p].status = 404 /\ NothingInvoked(p)
         /\ (Live(req'[p].session_id) /\ strip(req'[p].question) = << >>) =>
              pc'[p] = "done" /\ resp'[p].status = 400 /\ NothingInvoked(p)]_vars

\* C5 witness: one ask with an empty question answered 404, another answered 400.
C5_Witness ==
  \E p, q \in Procs :
    /\ pc[p] = "done" /\ req[p].endpoint = "session_ask"
    /\ strip(req[p].question) = << >> /\ resp[p].status = 404
    /\ pc[q] = "done" /\ req[q].endpoint = "session_ask"
    /\ resp[q].status = 400 /\ loc[q] = NoLoc

\* C6: a stateless ask whose question or context is empty after trimming is
\* answered 400 without entering an adapter, probing the search path,
\* spawning or creating a file.
C6_AskRejectsEmpty ==
  [][\A p \in Procs :
       (Starts(p, "ask")
          /\ (strip(req'[p].question) = << >> \/ strip(req'[p].context) = << >>)) =>
         pc'[p] = "done" /\ resp'[p].status = 400 /\ NothingInvoked(p)]_vars

\* C6 witness: one ask rejected for its context alone, one for its question.
C6_Witness ==
  \E p, q \in Procs :
    /\ pc[p] = "done" /\ req[p].endpoint = "ask" /\ resp[p].status = 400
    /\ strip(req[p].question) # << >> /\ strip(req[p].context) = << >>
    /\ pc[q] = "done" /\ req[q].endpoint = "ask" /\ resp[q].status = 400
    /\ strip(req[q].question) = << >>

\* C7: no stored session holds more than MAX_HISTORY_ITEMS turns.
C7_HistoryCapped ==
  \A sid \in sessions : Len(heap[sid].history) <= MAX_HISTORY_ITEMS

\* the temporary file of a codex call in flight
Holds(p, t) == InFlight(p) /\ loc[p].temp_path = t

\* C8: every temporary file that exists belongs to exactly one codex call
\* still in flight, so none is left once the calls have returned, whatever
\* way they returned; and a step that rewrites or removes a file is a step
\* of the call that owns it.
C8_TempFileScoped ==
  /\ [](\A t \in DOMAIN files : \E p \in Procs :
          Holds(p, t) /\ \A q \in Procs : Holds(q, t) => q = p)
  /\ [][\A t \in DOMAIN files :
          (t \notin DOMAIN files' \/ files'[t] # files[t]) =>
            \E p \in Procs :
              Holds(p, t) /\ (pc'[p] # pc[p] \/ child'[p] # child[p])]_vars

\* C8 witness: a codex call has ended in an exception while another codex
\* call is in flight, and the only file left is the one of the call in flight.
C8_Witness ==
  \E p, q \in Procs :
    /\ pc[p] = "done" /\ req[p].provider = CODEX_CLI_COMMAND
    /\ loc[p].onpath # {} /\ resp[p].body = Unhandled.body
    /\ InFlight(q) /\ loc[q].temp_path # NoFile
    /\ DOMAIN files = {loc[q].temp_path}

\* C9: an ask whose adapter finds its command missing from the search path
\* is answered 500 in that same step, with no file created and no
\* subprocess spawned, whichever the provider.
C9_UnavailableBeforeSpawn ==
  [][\A p \in Procs :
       (pc[p] = "idle" /\ loc'[p].adapter_calls > 0
          /\ req'[p].provider \notin loc'[p].onpath) =>
         /\ pc'[p] = "done"
         /\ resp'[p].status = 500
         /\ files' = files
         /\ child' = child
         /\ loc'[p].temp_path = NoFile]_vars

\* C9 witness: a codex ask and a claude ask both answered 500 for a missing command.
C9_Witness ==
  \E p, q \in Procs :
    /\ pc[p] = "done" /\ req[p].provider = CODEX_CLI_COMMAND
    /\ loc[p].adapter_calls = 1 /\ loc[p].onpath = {} /\ resp[p].status = 500
    /\ pc[q] = "done" /\ req[q].provider = CLAUDE_CLI_COMMAND
    /\ loc[q].adapter_calls = 1 /\ loc[q].onpath = {} /\ resp[q].status = 500

\* C10: every ask that has reached its adapter's subprocess eventually has
\* its response.
C10_AsksReturn ==
  \A p \in Procs : InFlight(p) ~> (pc[p] = "done")

\* C11: a request to /session/create or /session/ask that reaches its
\* handler, whether it is then answered 400, 404 or served, leaves in the
\* store no session older than the expiry window, and leaves every session
\* that was in the store and is not older than the window in the store and
\* unchanged.
C11_SweepFirst ==
  [][\A p \in Procs :
       ((Starts(p, "session_create") \/ Starts(p, "session_ask"))
          /\ resp'[p].status # 422) =>
         /\ \A sid \in sessions :
              IF now - heap[sid].created_at > SESSION_EXPIRY_SECONDS
              THEN sid \notin sessions'
              ELSE sid \in sessions' /\ heap'[sid] = heap[sid]
         /\ \A sid \in sessions' :
              now - heap'[sid].created_at <= SESSION_EXPIRY_SECONDS]_vars

\* C11 witness: a create request was answered 400 and the store has lost a
\* session older than the window, which an ask that found it still holds.
C11_Witness ==
  \E p, q \in Procs :
    /\ pc[p] = "done" /\ req[p].endpoint = "session_create"
    /\ resp[p].status = 400
    /\ InFlight(q) /\ loc[q].session # NoSession
    /\ loc[q].session \notin sessions
    /\ now - heap[loc[q].session].created_at > SESSION_EXPIRY_SECONDS

\* C12: an ask that passes validation enters exactly one adapter, the one
\* its provider field names or the codex adapter when the body carries no
\* provider field, and enters it once: until the response is sent the
\* handler neither enters an adapter again nor goes back to spawning, also
\* after the subprocess has failed.
C12_OneAdapterOnce ==
  [][\A p \in Procs :
       /\ ((Starts(p, "ask") \/ Starts(p, "session_ask"))
             /\ resp'[p].status \notin {400, 404, 422}) =>
            /\ loc'[p].adapter_calls = 1
            /\ loc'[p].adapter = (IF req'[p].provider_field = Absent
                                  THEN CODEX_CLI_COMMAND
                                  ELSE req'[p].provider_field)
       /\ pc[p] \in {"spawn", "communicate"} =>
            /\ loc'[p].adapter_calls = loc[p].adapter_calls
            /\ loc'[p].adapter = loc[p].adapter
            /\ pc'[p] \in {pc[p], "communicate", "done"}
       /\ pc[p] = "communicate" => pc'[p] # "spawn"
       /\ pc[p] = "done" =>
            /\ pc'[p] \in {"done", "idle"}
            /\ pc'[p] = "done" => loc'[p] = loc[p] /\ child'[p] = child[p]]_vars

\* C12 witness: an ask without a provider field went to codex, whose
\* subprocess failed, and was answered with that failure after one call.
C12_Witness ==
  \E p \in Procs :
    /\ pc[p] = "done" /\ req[p].endpoint = "ask"
    /\ req[p].provider_field = Absent
    /\ loc[p].adapter = CODEX_CLI_COMMAND /\ loc[p].adapter_calls = 1
    /\ resp[p].status = 500 /\ Len(resp[p].body) > 1
    /\ resp[p].body[1] = "Codex" /\ resp[p].body[2] = " CLI error: "

Range(s) == {s[i] : i \in 1..Len(s)}

IsPrefix(a, b) == Len(a) <= Len(b) /\ SubSeq(b, 1, Len(a)) = a

CallReturned(fn) == call.fn = fn /\ call.state = "returned"

\* C13: the result of smart_truncate(text, cap) is at most cap + 3 long; it
\* is text when text is at most cap long; and when it is shorter than text
\* it is a prefix of text, or a prefix of text followed by the ellipsis.
C13_TruncationBound ==
  CallReturned("smart_truncate") =>
    LET text == call.text
        out == call.result
    IN /\ pylen(out) <= call.max_chars + Len(Ellipsis)
       /\ pylen(text) <= call.max_chars => out = text
       /\ pylen(out) < pylen(text) =>
            \/ IsPrefix(out, text)
            \/ /\ Len(out) >= Len(Ellipsis)
               /\ SubSeq(out, Len(out) - Len(Ellipsis) + 1, Len(out)) = Ellipsis
               /\ IsPrefix(SubSeq(out, 1, Len(out) - Len(Ellipsis)), text)

\* where the builder's own sentinels stand in a built message whose url,
\* title and question hold none: the first BEGIN and the last END
BeginAt(m) == SetMin({i \in 1..Len(m) : m[i] = "BEGIN_UNTRUSTED_PAGE_TEXT"})
EndAt(m) == SetMax({i \in 1..Len(m) : m[i] = "END_UNTRUSTED_PAGE_TEXT"})

\* C14: the message of build_user_message has a URL line exactly when url
\* is not empty and a Title line exactly when title is not empty; it does
\* not begin with an empty line, and the lines before the blank line that
\* precedes the BEGIN sentinel hold no empty line.
C14_NoBlankArtifacts ==
  CallReturned("build_user_message") =>
    LET m == call.result
        head == SubSeq(m, 1, BeginAt(m) - 1)
    IN /\ ("Page URL: " \in Range(head)) <=> (call.url # << >>)
       /\ ("Page Title: " \in Range(head)) <=> (call.title # << >>)
       /\ m[1] # "\n"
       /\ \A i \in 1..(Len(head) - 3) : ~(head[i] = "\n" /\ head[i + 1] = "\n")

\* C15: the message of build_user_message holds the whole context, symbol
\* for symbol, between the line of the builder's BEGIN sentinel and the
\* line of the builder's END sentinel, whatever markers the context
\* holds, and the question comes after that END sentinel only.
C15_SentinelIntegrity ==
  CallReturned("build_user_message") =>
    LET m == call.result
        c == call.context
        q == call.question
        begin == BeginAt(m)
        end == EndAt(m)
    IN /\ begin = 1 \/ m[begin - 1] = "\n"
       /\ m[begin + 1] = "\n"
       /\ SubSeq(m, begin + 2, begin + 1 + Len(c)) = c
       /\ m[begin + 2 + Len(c)] = "\n"
       /\ end = begin + 3 + Len(c)
       /\ m[end + 1] = "\n"
       /\ SubSeq(m, Len(m) - Len(q) + 1, Len(m)) = q
       /\ Len(m) - Len(q) > end
       /\ \A i \in 1..end : m[i] \notin Range(q)

\* C15 witness: a message was built from a context that holds an END marker
\* and then a BEGIN marker.
C15_Witness ==
  /\ CallReturned("build_user_message")
  /\ Len(call.context) = 3
  /\ call.context[1] = "END_UNTRUSTED_PAGE_TEXT"
  /\ call.context[3] = "BEGIN_UNTRUSTED_PAGE_TEXT"

\* where a section header stands in a prompt, 0 when it is not there
SectionAt(prompt, header) ==
  LET hits == {i \in 1..Len(prompt) : prompt[i] = header}
  IN IF hits = {} THEN 0 ELSE SetMin(hits)

\* C16: the prompt a session ask hands to its provider is the system
\* prompt, then the turns of the asks answered 200 on that session so far,
\* in the order they were answered, and nothing of the asks that failed,
\* then the user message built from the stored context, url and title and
\* the trimmed question; when no ask has been answered yet the prompt has
\* no history section.
C16_PromptFromServedTurns ==
  [][\A p \in Procs :
       (Starts(p, "session_ask") /\ pc'[p] = "spawn") =>
         LET sid == req'[p].session_id
             s == heap[sid]
             prompt == loc'[p].prompt
         IN /\ prompt =
                 build_cli_prompt(SYSTEM_PROMPT,
                   build_user_message(strip(req'[p].question),
                                      s.context, s.url, s.title),
                   served[sid])
            /\ served[sid] = << >> => SectionAt(prompt, "CONVERSATION HISTORY:") = 0
            /\ served[sid] # << >> =>
                 /\ SectionAt(prompt, "CONVERSATION HISTORY:") > 0
                 /\ SectionAt(prompt, "CURRENT USER MESSAGE:")
                      > SectionAt(prompt, "CONVERSATION HISTORY:")]_vars

\* handler p resumes after communicate() in this step
Resumes(p) == pc[p] = "communicate" /\ child[p].state = "exited" /\ Finishes(p)

\* the text the claim takes from a failed subprocess
Diagnostic(stdout, stderr) ==
  IF strip(stderr) # << >> THEN strip(stderr)
  ELSE IF strip(stdout) # << >> THEN strip(stdout)
  ELSE <<"unknown error">>

\* s ends with t
EndsWith(s, t) ==
  Len(t) <= Len(s) /\ SubSeq(s, Len(s) - Len(t) + 1, Len(s)) = t

\* C17: an ask whose subprocess exited with a code other than 0 is not
\* answered 200: it is answered with an error whose text ends with the
\* trimmed standard error, or the trimmed standard output when that is
\* empty, or 'unknown error' when both are, whatever the last-message file
\* holds and whichever the adapter.
C17_NonZeroExitIsError ==
  [][\A p \in Procs :
       (Resumes(p) /\ child[p].returncode # 0) =>
         /\ resp'[p].status = 500
         /\ EndsWith(resp'[p].body,
                     <<" CLI error: ">> \o Diagnostic(child[p].stdout, child[p].stderr))]_vars

\* the last-message file of handler p, empty when it is gone
LastMessage(p) ==
  IF loc[p].temp_path \in DOMAIN files THEN files[loc[p].temp_path] ELSE << >>

\* C18: an ask whose codex subprocess exited with code 0 is answered 200
\* with the trimmed last-message file when that is not empty, else with the
\* trimmed standard output when that is not empty, else with 'No response
\* generated.'; a session ask appends that answer as its assistant turn.
C18_CodexAnswer ==
  [][\A p \in Procs :
       (Resumes(p) /\ loc[p].adapter = CODEX_CLI_COMMAND /\ child[p].returncode = 0) =>
         LET answer == IF strip(LastMessage(p)) # << >> THEN strip(LastMessage(p))
                       ELSE IF strip(child[p].stdout) # << >> THEN strip(child[p].stdout)
                       ELSE <<"No response generated.">>
             sid == loc[p].session
         IN /\ resp'[p].status = 200
            /\ resp'[p].body = answer
            /\ sid # NoSession =>
                 /\ Len(heap'[sid].history) = Len(heap[sid].history) + 2
                 /\ heap'[sid].history[Len(heap'[sid].history)] = Turn("assistant", answer)]_vars

\* C19: every session ever created keeps its context, url, title and
\* creation time through every step, and a session is created with the
\* time of its creation and the context, url and title of its request.
C19_SessionFieldsFixed ==
  [][/\ \A sid \in DOMAIN heap :
          /\ sid \in DOMAIN heap'
          /\ heap'[sid].context = heap[sid].context
          /\ heap'[sid].url = heap[sid].url
          /\ heap'[sid].title = heap[sid].title
          /\ heap'[sid].created_at = heap[sid].created_at
     /\ \A sid \in DOMAIN heap' \ DOMAIN heap :
          \E p \in Procs :
            /\ Starts(p, "session_create")
            /\ heap'[sid].created_at = now
            /\ heap'[sid].context = req'[p].context
            /\ heap'[sid].url = req'[p].url
            /\ heap'[sid].title = req'[p].title
            /\ heap'[sid].history = << >>]_vars

\* C19 witness: an ask was answered 200 and appended its turns to a session
\* created some time ago.
C19_Witness ==
  \E p \in Procs :
    /\ pc[p] = "done" /\ req[p].endpoint = "session_ask" /\ resp[p].status = 200
    /\ Len(heap[req[p].session_id].history) = 2
    /\ now > heap[req[p].session_id].created_at

\* C20: a session ask that resumes after its session was swept from the
\* store is answered 200 with the adapter's answer when the adapter
\* returned one; its step changes neither the store nor any other session;
\* an id once swept never comes back, and an ask on it is answered 404.
C20_LateAppend ==
  [][/\ \A p \in Procs :
          (Resumes(p) /\ loc[p].session # NoSession /\ loc[p].session \notin sessions) =>
            /\ sessions' = sessions
            /\ \A k \in DOMAIN heap \ {loc[p].session} : heap'[k] = heap[k]
            /\ AdapterResult(p).kind = "answer" =>
                 resp'[p].status = 200 /\ resp'[p].body = AdapterResult(p).body
     /\ \A sid \in DOMAIN heap \ sessions : sid \notin sessions'
     /\ \A p \in Procs :
          (Starts(p, "session_ask") /\ resp'[p].status # 422
             /\ req'[p].session_id \in DOMAIN heap \ sessions) =>
            resp'[p].status = 404]_vars

====
